---- MODULE Spec2Model ----
(***************************************************************************)
(* A model of cft-leveldb: the write-ahead log (src/src/wal.rs), the       *)
(* database front end (src/src/db.rs), the in-memory table                 *)
(* (src/src/mem_table.rs), the file layer (src/src/vfs.rs) and the varint  *)
(* codec (src/src/encoding.rs).                                            *)
(*                                                                         *)
(* Bytes are the integers 0..255.  A u32 checksum is kept as its four      *)
(* little-endian bytes, which is also how it is laid out in a record       *)
(* header.                                                                 *)
(***************************************************************************)
EXTENDS Integers, Sequences, FiniteSets, TLC

(***************************************************************************)
(* Bounds of the model.                                                    *)
(*                                                                         *)
(* BLOCK_SIZE is 32768 in src/src/wal.rs:34.  The model runs write_data    *)
(* and the reader with a block of BLOCK_SIZE bytes as defined here, so     *)
(* that logs that fill a block, end a few bytes short of one and span      *)
(* blocks stay within reach of an exhaustive search.  Every                *)
(* comparison the code makes is between BLOCK_SIZE, HEADER_SIZE, the       *)
(* block offset and the payload length; HEADER_SIZE keeps its value.       *)
(***************************************************************************)
BLOCK_SIZE == 10

\* const HEADER_SIZE: usize = 4 + 2 + 1
HEADER_SIZE == 4 + 2 + 1

\* the most payloads one writer writes to the log
MaxWrites == 2

Min(a, b) == IF a <= b THEN a ELSE b

Pow2(n) == 2 ^ n

RECURSIVE Concat(_)
\* the concatenation of a sequence of byte sequences
Concat(ss) == IF ss = <<>> THEN <<>> ELSE Head(ss) \o Concat(Tail(ss))

Take(s, n) == SubSeq(s, 1, Min(n, Len(s)))

Drop(s, n) == SubSeq(s, n + 1, Len(s))

Zeroes(n) == [i \in 1..n |-> 0]

\* F applied to the value of x: x is evaluated once, before F is entered
Bind(x, F(_)) == CHOOSE r \in {F(v) : v \in {x}} : TRUE

(***************************************************************************)
(* CRC-32C (Castagnoli), as crc::crc32::Digest::new(CASTAGNOLI) computes   *)
(* it: reflected polynomial 0x82F63B78, the table-driven byte loop, the    *)
(* value inverted on entry to and on exit from every update.               *)
(***************************************************************************)
\* x ^ y for 4-bit x and y, at [x + 1][y + 1]
XorNibble ==
    <<<<0, 1, 2, 3, 4, 5, 6, 7, 8, 9, 10, 11, 12, 13, 14, 15>>,
      <<1, 0, 3, 2, 5, 4, 7, 6, 9, 8, 11, 10, 13, 12, 15, 14>>,
      <<2, 3, 0, 1, 6, 7, 4, 5, 10, 11, 8, 9, 14, 15, 12, 13>>,
      <<3, 2, 1, 0, 7, 6, 5, 4, 11, 10, 9, 8, 15, 14, 13, 12>>,
      <<4, 5, 6, 7, 0, 1, 2, 3, 12, 13, 14, 15, 8, 9, 10, 11>>,
      <<5, 4, 7, 6, 1, 0, 3, 2, 13, 12, 15, 14, 9, 8, 11, 10>>,
      <<6, 7, 4, 5, 2, 3, 0, 1, 14, 15, 12, 13, 10, 11, 8, 9>>,
      <<7, 6, 5, 4, 3, 2, 1, 0, 15, 14, 13, 12, 11, 10, 9, 8>>,
      <<8, 9, 10, 11, 12, 13, 14, 15, 0, 1, 2, 3, 4, 5, 6, 7>>,
      <<9, 8, 11, 10, 13, 12, 15, 14, 1, 0, 3, 2, 5, 4, 7, 6>>,
      <<10, 11, 8, 9, 14, 15, 12, 13, 2, 3, 0, 1, 6, 7, 4, 5>>,
      <<11, 10, 9, 8, 15, 14, 13, 12, 3, 2, 1, 0, 7, 6, 5, 4>>,
      <<12, 13, 14, 15, 8, 9, 10, 11, 4, 5, 6, 7, 0, 1, 2, 3>>,
      <<13, 12, 15, 14, 9, 8, 11, 10, 5, 4, 7, 6, 1, 0, 3, 2>>,
      <<14, 15, 12, 13, 10, 11, 8, 9, 6, 7, 4, 5, 2, 3, 0, 1>>,
      <<15, 14, 13, 12, 11, 10, 9, 8, 7, 6, 5, 4, 3, 2, 1, 0>>>>

\* a ^ b for bytes a and b
Xor8(a, b) ==
    16 * XorNibble[(a \div 16) + 1][(b \div 16) + 1] + XorNibble[(a % 16) + 1][(b % 16) + 1]

\* the table crc32::make_table(CASTAGNOLI) builds for the reflected polynomial
\* 0x82F63B78: entry [i + 1] is the u32 for byte i, as four little-endian bytes
CrcTable ==
    <<<<0, 0, 0, 0>>, <<3, 131, 107, 242>>, <<247, 112, 59, 225>>, <<244, 243, 80, 19>>,
       <<31, 151, 154, 199>>, <<28, 20, 241, 53>>, <<232, 231, 161, 38>>, <<235, 100, 202, 212>>,
       <<207, 88, 217, 138>>, <<204, 219, 178, 120>>, <<56, 40, 226, 107>>, <<59, 171, 137, 153>>,
       <<208, 207, 67, 77>>, <<211, 76, 40, 191>>, <<39, 191, 120, 172>>, <<36, 60, 19, 94>>,
       <<111, 199, 94, 16>>, <<108, 68, 53, 226>>, <<152, 183, 101, 241>>, <<155, 52, 14, 3>>,
       <<112, 80, 196, 215>>, <<115, 211, 175, 37>>, <<135, 32, 255, 54>>, <<132, 163, 148, 196>>,
       <<160, 159, 135, 154>>, <<163, 28, 236, 104>>, <<87, 239, 188, 123>>, <<84, 108, 215, 137>>,
       <<191, 8, 29, 93>>, <<188, 139, 118, 175>>, <<72, 120, 38, 188>>, <<75, 251, 77, 78>>,
       <<222, 142, 189, 32>>, <<221, 13, 214, 210>>, <<41, 254, 134, 193>>, <<42, 125, 237, 51>>,
       <<193, 25, 39, 231>>, <<194, 154, 76, 21>>, <<54, 105, 28, 6>>, <<53, 234, 119, 244>>,
       <<17, 214, 100, 170>>, <<18, 85, 15, 88>>, <<230, 166, 95, 75>>, <<229, 37, 52, 185>>,
       <<14, 65, 254, 109>>, <<13, 194, 149, 159>>, <<249, 49, 197, 140>>, <<250, 178, 174, 126>>,
       <<177, 73, 227, 48>>, <<178, 202, 136, 194>>, <<70, 57, 216, 209>>, <<69, 186, 179, 35>>,
       <<174, 222, 121, 247>>, <<173, 93, 18, 5>>, <<89, 174, 66, 22>>, <<90, 45, 41, 228>>,
       <<126, 17, 58, 186>>, <<125, 146, 81, 72>>, <<137, 97, 1, 91>>, <<138, 226, 106, 169>>,
       <<97, 134, 160, 125>>, <<98, 5, 203, 143>>, <<150, 246, 155, 156>>, <<149, 117, 240, 110>>,
       <<188, 29, 123, 65>>, <<191, 158, 16, 179>>, <<75, 109, 64, 160>>, <<72, 238, 43, 82>>,
       <<163, 138, 225, 134>>, <<160, 9, 138, 116>>, <<84, 250, 218, 103>>, <<87, 121, 177, 149>>,
       <<115, 69, 162, 203>>, <<112, 198, 201, 57>>, <<132, 53, 153, 42>>, <<135, 182, 242, 216>>,
       <<108, 210, 56, 12>>, <<111, 81, 83, 254>>, <<155, 162, 3, 237>>, <<152, 33, 104, 31>>,
       <<211, 218, 37, 81>>, <<208, 89, 78, 163>>, <<36, 170, 30, 176>>, <<39, 41, 117, 66>>,
       <<204, 77, 191, 150>>, <<207, 206, 212, 100>>, <<59, 61, 132, 119>>, <<56, 190, 239, 133>>,
       <<28, 130, 252, 219>>, <<31, 1, 151, 41>>, <<235, 242, 199, 58>>, <<232, 113, 172, 200>>,
       <<3, 21, 102, 28>>, <<0, 150, 13, 238>>, <<244, 101, 93, 253>>, <<247, 230, 54, 15>>,
       <<98, 147, 198, 97>>, <<97, 16, 173, 147>>, <<149, 227, 253, 128>>, <<150, 96, 150, 114>>,
       <<125, 4, 92, 166>>, <<126, 135, 55, 84>>, <<138, 116, 103, 71>>, <<137, 247, 12, 181>>,
       <<173, 203, 31, 235>>, <<174, 72, 116, 25>>, <<90, 187, 36, 10>>, <<89, 56, 79, 248>>,
       <<178, 92, 133, 44>>, <<177, 223, 238, 222>>, <<69, 44, 190, 205>>, <<70, 175, 213, 63>>,
       <<13, 84, 152, 113>>, <<14, 215, 243, 131>>, <<250, 36, 163, 144>>, <<249, 167, 200, 98>>,
       <<18, 195, 2, 182>>, <<17, 64, 105, 68>>, <<229, 179, 57, 87>>, <<230, 48, 82, 165>>,
       <<194, 12, 65, 251>>, <<193, 143, 42, 9>>, <<53, 124, 122, 26>>, <<54, 255, 17, 232>>,
       <<221, 155, 219, 60>>, <<222, 24, 176, 206>>, <<42, 235, 224, 221>>, <<41, 104, 139, 47>>,
       <<120, 59, 246, 130>>, <<123, 184, 157, 112>>, <<143, 75, 205, 99>>, <<140, 200, 166, 145>>,
       <<103, 172, 108, 69>>, <<100, 47, 7, 183>>, <<144, 220, 87, 164>>, <<147, 95, 60, 86>>,
       <<183, 99, 47, 8>>, <<180, 224, 68, 250>>, <<64, 19, 20, 233>>, <<67, 144, 127, 27>>,
       <<168, 244, 181, 207>>, <<171, 119, 222, 61>>, <<95, 132, 142, 46>>, <<92, 7, 229, 220>>,
       <<23, 252, 168, 146>>, <<20, 127, 195, 96>>, <<224, 140, 147, 115>>, <<227, 15, 248, 129>>,
       <<8, 107, 50, 85>>, <<11, 232, 89, 167>>, <<255, 27, 9, 180>>, <<252, 152, 98, 70>>,
       <<216, 164, 113, 24>>, <<219, 39, 26, 234>>, <<47, 212, 74, 249>>, <<44, 87, 33, 11>>,
       <<199, 51, 235, 223>>, <<196, 176, 128, 45>>, <<48, 67, 208, 62>>, <<51, 192, 187, 204>>,
       <<166, 181, 75, 162>>, <<165, 54, 32, 80>>, <<81, 197, 112, 67>>, <<82, 70, 27, 177>>,
       <<185, 34, 209, 101>>, <<186, 161, 186, 151>>, <<78, 82, 234, 132>>, <<77, 209, 129, 118>>,
       <<105, 237, 146, 40>>, <<106, 110, 249, 218>>, <<158, 157, 169, 201>>, <<157, 30, 194, 59>>,
       <<118, 122, 8, 239>>, <<117, 249, 99, 29>>, <<129, 10, 51, 14>>, <<130, 137, 88, 252>>,
       <<201, 114, 21, 178>>, <<202, 241, 126, 64>>, <<62, 2, 46, 83>>, <<61, 129, 69, 161>>,
       <<214, 229, 143, 117>>, <<213, 102, 228, 135>>, <<33, 149, 180, 148>>, <<34, 22, 223, 102>>,
       <<6, 42, 204, 56>>, <<5, 169, 167, 202>>, <<241, 90, 247, 217>>, <<242, 217, 156, 43>>,
       <<25, 189, 86, 255>>, <<26, 62, 61, 13>>, <<238, 205, 109, 30>>, <<237, 78, 6, 236>>,
       <<196, 38, 141, 195>>, <<199, 165, 230, 49>>, <<51, 86, 182, 34>>, <<48, 213, 221, 208>>,
       <<219, 177, 23, 4>>, <<216, 50, 124, 246>>, <<44, 193, 44, 229>>, <<47, 66, 71, 23>>,
       <<11, 126, 84, 73>>, <<8, 253, 63, 187>>, <<252, 14, 111, 168>>, <<255, 141, 4, 90>>,
       <<20, 233, 206, 142>>, <<23, 106, 165, 124>>, <<227, 153, 245, 111>>, <<224, 26, 158, 157>>,
       <<171, 225, 211, 211>>, <<168, 98, 184, 33>>, <<92, 145, 232, 50>>, <<95, 18, 131, 192>>,
       <<180, 118, 73, 20>>, <<183, 245, 34, 230>>, <<67, 6, 114, 245>>, <<64, 133, 25, 7>>,
       <<100, 185, 10, 89>>, <<103, 58, 97, 171>>, <<147, 201, 49, 184>>, <<144, 74, 90, 74>>,
       <<123, 46, 144, 158>>, <<120, 173, 251, 108>>, <<140, 94, 171, 127>>, <<143, 221, 192, 141>>,
       <<26, 168, 48, 227>>, <<25, 43, 91, 17>>, <<237, 216, 11, 2>>, <<238, 91, 96, 240>>,
       <<5, 63, 170, 36>>, <<6, 188, 193, 214>>, <<242, 79, 145, 197>>, <<241, 204, 250, 55>>,
       <<213, 240, 233, 105>>, <<214, 115, 130, 155>>, <<34, 128, 210, 136>>, <<33, 3, 185, 122>>,
       <<202, 103, 115, 174>>, <<201, 228, 24, 92>>, <<61, 23, 72, 79>>, <<62, 148, 35, 189>>,
       <<117, 111, 110, 243>>, <<118, 236, 5, 1>>, <<130, 31, 85, 18>>, <<129, 156, 62, 224>>,
       <<106, 248, 244, 52>>, <<105, 123, 159, 198>>, <<157, 136, 207, 213>>, <<158, 11, 164, 39>>,
       <<186, 55, 183, 121>>, <<185, 180, 220, 139>>, <<77, 71, 140, 152>>, <<78, 196, 231, 106>>,
       <<165, 160, 45, 190>>, <<166, 35, 70, 76>>, <<82, 208, 22, 95>>, <<81, 83, 125, 173>>>>

\* !x for a u32 x
Not32(x) == <<255 - x[1], 255 - x[2], 255 - x[3], 255 - x[4]>>

\* one round of the byte loop: table[(value as u8) ^ b] ^ (value >> 8)
CrcStep(value, b) ==
    LET t == CrcTable[Xor8(value[1], b) + 1]
    IN  <<Xor8(t[1], value[2]), Xor8(t[2], value[3]), Xor8(t[3], value[4]), t[4]>>

RECURSIVE CrcLoop(_, _, _, _)
\* the byte loop over bytes[lo..hi], in order: the first half of the range,
\* then the second half from the value the first half leaves
CrcLoop(value, bytes, lo, hi) ==
    IF lo > hi THEN value
    ELSE IF lo = hi THEN CrcStep(value, bytes[lo])
    ELSE LET mid == (lo + hi) \div 2
         IN  Bind(CrcLoop(value, bytes, lo, mid),
                  LAMBDA v : CrcLoop(v, bytes, mid + 1, hi))

\* digest.write(bytes) on a digest whose value is `value`
CrcUpdate(value, bytes) ==
    Bind(bytes, LAMBDA bs :
        Bind(Not32(value), LAMBDA v0 :
            Bind(CrcLoop(v0, bs, 1, Len(bs)), LAMBDA v1 : Not32(v1))))

\* the checksum of a record: digest.write(&[ty]); digest.write(rec); sum32()
Checksum(ty, rec) ==
    Bind(CrcUpdate(<<0, 0, 0, 0>>, <<ty>>), LAMBDA value : CrcUpdate(value, rec))

(***************************************************************************)
(* Variable-length integers (src/src/encoding.rs).  A u32 is the tuple of  *)
(* its 4 little-endian bytes and a u64 the tuple of its 8 (to_le_bytes):   *)
(* the values do not fit the 32-bit integers of TLC.  The arithmetic of    *)
(* the code is done on these tuples, byte by byte.                         *)
(***************************************************************************)
\* const B: u8 = 1 << 7
B == 2 ^ 7

\* the function f on 1..n as a tuple of its values
AsTuple(f) == SubSeq(f, 1, Len(f))

\* n as u32 (w = 4) or as u64 (w = 8), for a length n below 2^31
ToLe(n, w) ==
    AsTuple([i \in 1..w |-> IF i <= 4 THEN (n \div (256 ^ (i - 1))) % 256 ELSE 0])

\* x >> s
Shr(x, s) ==
    LET q == s \div 8
        r == s % 8
        at(i) == IF i <= Len(x) THEN x[i] ELSE 0
    IN  AsTuple([i \in 1..Len(x) |->
                    (at(i + q) \div (2 ^ r)) + (at(i + q + 1) % (2 ^ r)) * (2 ^ (8 - r))])

\* x << s: the bits shifted past the width are dropped
Shl(x, s) ==
    LET q == s \div 8
        r == s % 8
        at(i) == IF i >= 1 THEN x[i] ELSE 0
    IN  AsTuple([i \in 1..Len(x) |->
                    (at(i - q) % (2 ^ (8 - r))) * (2 ^ r) + (at(i - q - 1) \div (2 ^ (8 - r)))])

\* x < y
Less(x, y) ==
    \E i \in 1..Len(x) : x[i] < y[i] /\ \A j \in (i + 1)..Len(x) : x[j] = y[j]

\* the carry into byte i of x + y
CarryInto(x, y, i) ==
    \E j \in 1..(i - 1) :
        /\ x[j] + y[j] >= 256
        /\ \A l \in (j + 1)..(i - 1) : x[l] + y[l] >= 255

\* x + y in the width of x: the wrapped sum, and whether it overflowed
Add(x, y) ==
    LET c(i) == IF CarryInto(x, y, i) THEN 1 ELSE 0
    IN  [val |-> AsTuple([i \in 1..Len(x) |-> (x[i] + y[i] + c(i)) % 256]),
         overflow |-> CarryInto(x, y, Len(x) + 1)]

RECURSIVE MulByte(_, _, _, _)
\* the bytes of y * d for a byte d, from byte k of y on, with the carry from
\* the bytes below: one byte more than y has
MulByte(y, d, k, carry) ==
    IF k > Len(y) THEN <<carry>>
    ELSE Bind(y[k] * d + carry,
              LAMBDA t : <<t % 256>> \o MulByte(y, d, k + 1, t \div 256))

RECURSIVE MulRows(_, _, _, _)
\* long multiplication of x by y: the rows of the bytes of x from byte i on,
\* added to acc
MulRows(x, y, i, acc) ==
    IF i > Len(x) THEN acc
    ELSE IF x[i] = 0 THEN MulRows(x, y, i + 1, acc)
    ELSE LET row  == Zeroes(i - 1) \o MulByte(y, x[i], 1, 0)
             lost == \E j \in (Len(x) + 1)..Len(row) : row[j] # 0
         IN  Bind(Add(acc.val, SubSeq(row, 1, Len(x))),
                  LAMBDA s : MulRows(x, y, i + 1,
                                     [val |-> s.val,
                                      overflow |-> acc.overflow \/ lost \/ s.overflow]))

\* x * y in the width of x: the wrapped product, and whether it overflowed
Mul(x, y) ==
    Bind(<<x, y>>,
         LAMBDA a : MulRows(a[1], a[2], 1, [val |-> Zeroes(Len(a[1])), overflow |-> FALSE]))

\* u32::lowest_u8, u64::lowest_u8: to_le_bytes()[0]
LowestU8(x) == x[1]

\* b | B,  b & B,  b & !B  on a byte
OrB(b) == (b % B) + B
AndB(b) == (b \div B) * B
AndNotB(b) == b % B

\* 1 << s as a u32
OneShl(s) == Shl(ToLe(1, 4), s)

\* an encoder that sets the continuation bit on its last byte too
PutVarU32LeAllContinued(n) ==
    IF Less(n, OneShl(7)) THEN <<OrB(LowestU8(n))>>
    ELSE <<OrB(LowestU8(n)), OrB(LowestU8(Shr(n, 7))), OrB(LowestU8(Shr(n, 14))),
           OrB(LowestU8(Shr(n, 21))), OrB(LowestU8(Shr(n, 28)))>>

\* BufMutExt::put_var_u32_le: the bytes put
PutVarU32Le(n) ==
    IF Less(n, OneShl(7)) THEN <<LowestU8(n)>>
    ELSE IF Less(n, OneShl(14))
    THEN <<OrB(LowestU8(n)), LowestU8(Shr(n, 7))>>
    ELSE IF Less(n, OneShl(21))
    THEN <<OrB(LowestU8(n)), OrB(LowestU8(Shr(n, 7))), LowestU8(Shr(n, 14))>>
    ELSE IF Less(n, OneShl(28))
    THEN <<OrB(LowestU8(n)), OrB(LowestU8(Shr(n, 7))), OrB(LowestU8(Shr(n, 14))),
           LowestU8(Shr(n, 21))>>
    ELSE <<OrB(LowestU8(n)), OrB(LowestU8(Shr(n, 7))), OrB(LowestU8(Shr(n, 14))),
           OrB(LowestU8(Shr(n, 21))), LowestU8(Shr(n, 28))>>

RECURSIVE PutVarU64Le(_)
\* BufMutExt::put_var_u64_le: the bytes put
PutVarU64Le(b) ==
    IF ~Less(b, ToLe(B, 8))
    THEN Bind(Shr(b, 7), LAMBDA b1 : <<OrB(LowestU8(b))>> \o PutVarU64Le(b1))
    ELSE <<LowestU8(b)>>

RECURSIVE GetVarLoop(_, _, _, _, _)
(***************************************************************************)
(* The loop of get_var_u32_le and get_var_u64_le with `left` iterations to *)
(* go, on the buffer buf.  The result is [kind, val, rest]: kind "Some"    *)
(* or "None" as returned, or "Panic" where `ret += cur * base` overflows   *)
(* in a build with overflow checks (checked); rest is the buffer after the *)
(* call.                                                                   *)
(***************************************************************************)
GetVarLoop(buf, ret, base, left, checked) ==
    IF left = 0 THEN [kind |-> "Some", val |-> ret, rest |-> buf]
    ELSE IF buf = <<>> THEN [kind |-> "None", val |-> ret, rest |-> buf]
    ELSE LET byte   == Head(buf)
             is_end == AndB(byte) = 0
             cur    == ToLe(AndNotB(byte), Len(ret))
         IN  Bind(Mul(cur, base), LAMBDA prod :
             Bind(Add(ret, prod.val), LAMBDA sum :
                 IF checked /\ (prod.overflow \/ sum.overflow)
                 THEN [kind |-> "Panic", val |-> ret, rest |-> Tail(buf)]
                 ELSE IF is_end
                 THEN [kind |-> "Some", val |-> sum.val, rest |-> Tail(buf)]
                 ELSE Bind(Shl(base, 7), LAMBDA base1 :
                          GetVarLoop(Tail(buf), sum.val, base1, left - 1, checked))))

\* BytesExt::get_var_u32_le
GetVarU32Le(buf, checked) == GetVarLoop(buf, ToLe(0, 4), ToLe(1, 4), 5, checked)

\* BytesExt::get_var_u64_le
GetVarU64Le(buf, checked) == GetVarLoop(buf, ToLe(0, 8), ToLe(1, 8), 10, checked)

(***************************************************************************)
(* Record types and the writer's framing (src/src/wal.rs).                 *)
(***************************************************************************)
Full == 1
First == 2
Middle == 3
Last == 4

\* a RecordType::calc that never ends a fragmented payload with Last
RecordTypeCalcNoLast(is_begin, is_end) ==
    IF is_begin THEN (IF is_end THEN Full ELSE First) ELSE Middle

\* RecordType::calc
RecordTypeCalc(is_begin, is_end) ==
    IF is_begin THEN (IF is_end THEN Full ELSE First)
    ELSE (IF is_end THEN Last ELSE Middle)

\* put_u16_le(n as u16)
PutU16Le(n) == <<(n % 65536) % 256, (n % 65536) \div 256>>

\* the bytes emit_physical_record appends for a record of type ty with data rec
EmitPhysicalRecord(ty, rec) ==
    Checksum(ty, rec) \o PutU16Le(Len(rec)) \o <<ty>> \o rec

RECURSIVE WriteDataSteps(_, _, _)
(***************************************************************************)
(* The appends of write_data, in order, from block offset bo: one entry    *)
(* per call of file.append, with the block offset once the statements up   *)
(* to the next append (or the return) have run.  A "pad" entry is the      *)
(* append of ZEROES[..left_over]; a "rec" entry is the append made by      *)
(* emit_physical_record.                                                   *)
(***************************************************************************)
WriteDataSteps(bo, data, is_begin) ==
    LET left_over == BLOCK_SIZE - bo
        pads      == left_over < HEADER_SIZE
        bo1       == IF pads THEN 0 ELSE bo
        is_end    == left_over >= Len(data)
        cur_len   == IF is_end THEN Len(data) ELSE left_over
        ty        == RecordTypeCalc(is_begin, is_end)
        rec       == [kind |-> "rec", bytes |-> EmitPhysicalRecord(ty, Take(data, cur_len)),
                      bo |-> bo1 + cur_len, ty |-> ty, len |-> cur_len]
        pad       == [kind |-> "pad", bytes |-> Zeroes(left_over),
                      bo |-> 0, ty |-> 0, len |-> left_over]
        here      == IF pads THEN <<pad, rec>> ELSE <<rec>>
    IN  IF Len(data) = cur_len THEN here
        ELSE here \o WriteDataSteps(bo1 + cur_len, Drop(data, cur_len), FALSE)

\* what a write_data that meets no I/O error appends to the file
WriteDataBytes(bo, data) ==
    LET steps == WriteDataSteps(bo, data, TRUE)
    IN  Concat([i \in 1..Len(steps) |-> steps[i].bytes])

\* the writer's block_offset after a write_data that meets no I/O error
WriteDataOffset(bo, data) ==
    LET steps == WriteDataSteps(bo, data, TRUE)
    IN  steps[Len(steps)].bo

(***************************************************************************)
(* The reader (src/src/wal.rs).  A call on file f with the read cursor at  *)
(* pos (the number of bytes already consumed) yields a record              *)
(* [kind, ty, data, pos]: kind is "Some", "None" or the error returned,    *)
(* pos the cursor after the call.                                          *)
(***************************************************************************)
\* RecordType::from_u8 succeeds
ValidType(ty) == ty \in {Full, First, Middle, Last}

\* a reader that never compares the checksum
IsValidUnchecked(crc, ty, data) == TRUE

\* Record::is_valid
IsValid(crc, ty, data) == Checksum(ty, data) = crc

ReadRecord(f, pos) ==
    IF Len(f) - pos < HEADER_SIZE
    THEN \* read_exact meets the end of the file: Ok(None)
         [kind |-> "None", ty |-> 0, data |-> <<>>, pos |-> Len(f)]
    ELSE LET crc  == SubSeq(f, pos + 1, pos + 4)
             len  == f[pos + 5] + 256 * f[pos + 6]
             ty   == f[pos + 7]
             data == SubSeq(f, pos + 8, pos + 7 + len)
         IN  IF Len(f) - (pos + HEADER_SIZE) < len
             THEN [kind |-> "VfsError", ty |-> ty, data |-> <<>>, pos |-> Len(f)]
             ELSE IF ~ValidType(ty)
             THEN [kind |-> "InvalidRecordTypeError", ty |-> ty, data |-> <<>>,
                   pos |-> pos + HEADER_SIZE + len]
             ELSE IF ~IsValid(crc, ty, data)
             THEN [kind |-> "InvalidRecordTypeError", ty |-> ty, data |-> <<>>,
                   pos |-> pos + HEADER_SIZE + len]
             ELSE [kind |-> "Some", ty |-> ty, data |-> data,
                   pos |-> pos + HEADER_SIZE + len]

RECURSIVE ReadRestRecordsEofEnds(_, _, _, _)
\* a read_rest_records that takes the end of the file for the end of the payload
ReadRestRecordsEofEnds(f, pos, acc, offs) ==
    LET r == ReadRecord(f, pos)
    IN  IF r.kind = "None"
        THEN [kind |-> "Some", data |-> acc, pos |-> r.pos, offs |-> Append(offs, pos)]
        ELSE IF r.kind # "Some"
        THEN [kind |-> r.kind, data |-> <<>>, pos |-> r.pos, offs |-> Append(offs, pos)]
        ELSE IF r.ty = Middle
        THEN ReadRestRecordsEofEnds(f, r.pos, acc \o r.data, Append(offs, pos))
        ELSE IF r.ty = Last
        THEN [kind |-> "Some", data |-> acc \o r.data, pos |-> r.pos,
              offs |-> Append(offs, pos)]
        ELSE [kind |-> "InvalidRecordTypeError", data |-> <<>>, pos |-> r.pos,
              offs |-> Append(offs, pos)]

RECURSIVE ReadRestRecords(_, _, _, _)
\* read_rest_records, with the data gathered so far and the offsets of the
\* records read so far
ReadRestRecords(f, pos, acc, offs) ==
    LET r == ReadRecord(f, pos)
    IN  IF r.kind = "None"
        THEN [kind |-> "InvalidWalFileError", data |-> <<>>, pos |-> r.pos,
              offs |-> Append(offs, pos)]
        ELSE IF r.kind # "Some"
        THEN [kind |-> r.kind, data |-> <<>>, pos |-> r.pos, offs |-> Append(offs, pos)]
        ELSE IF r.ty = Middle
        THEN ReadRestRecords(f, r.pos, acc \o r.data, Append(offs, pos))
        ELSE IF r.ty = Last
        THEN [kind |-> "Some", data |-> acc \o r.data, pos |-> r.pos,
              offs |-> Append(offs, pos)]
        ELSE [kind |-> "InvalidRecordTypeError", data |-> <<>>, pos |-> r.pos,
              offs |-> Append(offs, pos)]

\* read_data; offs lists the file offsets at which it called read_record
ReadData(f, pos) ==
    LET first == ReadRecord(f, pos)
    IN  IF first.kind # "Some"
        THEN [kind |-> first.kind, data |-> <<>>, pos |-> first.pos, offs |-> <<pos>>]
        ELSE IF first.ty = Full
        THEN [kind |-> "Some", data |-> first.data, pos |-> first.pos, offs |-> <<pos>>]
        ELSE IF first.ty = First
        THEN ReadRestRecords(f, first.pos, first.data, <<pos>>)
        ELSE [kind |-> "InvalidRecordTypeError", data |-> <<>>, pos |-> first.pos,
              offs |-> <<pos>>]


(***************************************************************************)
(* State.                                                                  *)
(*   file          the bytes of wal.log                                    *)
(*   block_offset  WalFileWriter.block_offset                              *)
(*   written       the payloads whose write_data has returned, in order    *)
(*   records       the physical records the writer appended: for each the  *)
(*                 file offset of its header, its type, its data length    *)
(*                 and the index in `written` of its payload               *)
(*   phase         "write" while the writer runs, "read" once the reader   *)
(*                 has been handed the file                                *)
(*   fault         what happened to the file between the two               *)
(*   rpos          the reader's cursor: the bytes its handle has consumed  *)
(*   results       what the read_data calls returned, in order             *)
(* The Db on top of the log (src/src/db.rs):                               *)
(*   db            "open" while a Db value exists, else "closed"           *)
(*   opens         how many times Db::create has run                       *)
(*   mem           the map of the MemTable: key -> None or Some(value)     *)
(*   wal_lock      the task holding the Mutex of Wal.writer, or 0          *)
(*   task          per task: where it stands in Db::set or Db::get, the    *)
(*                 arguments, the appends write_data still has to make,    *)
(*                 and what its last call returned                         *)
(*   sets          the (task, key, value) of the MemTable inserts made on  *)
(*                 this Db value, in the order they were made              *)
(*   durable       per key, the value of the last Db::set that returned    *)
(*                 Ok on this path, over every Db value opened on it       *)
(*   appends       per append made on wal.log, the value of the Db::set    *)
(*                 that made it (each call has its own value)              *)
(*   overlap       an append was made while two tasks were in Wal::set     *)
(*   nops, nfail   calls started, appends that failed                      *)
(* The codec on its own (src/src/encoding.rs):                             *)
(*   vwidth        4 for the u32 pair, 8 for the u64 pair, 0 when unused   *)
(*   vstage        "put" while values are encoded, "get" once frozen       *)
(*   vin           the values put, in order                                *)
(*   vbuf          the buffer                                              *)
(*   vout          what the decoder calls returned, in order: the kind     *)
(*                 ("Some", "None", "Panic") and the value of a Some       *)
(*   vraw          the buffer a decoder was handed that no encoder wrote,  *)
(*                 empty otherwise                                         *)
(* The files on their own (src/src/vfs.rs):                                *)
(*   vdisk         per file name under the base directory: None while no   *)
(*                 file of that name exists, else Some(its bytes)          *)
(*   vopen         the names for which a VFile has been returned           *)
(*   vres          what the last call returned: the operation, the name,   *)
(*                 whether it returned Ok, whether the file was missing    *)
(*                 when it was called, and the length a len() returned     *)
(* The block builder (src/src/sorted_stable.rs):                           *)
(*   bbuf          BlockBuilder.buf                                        *)
(*   brestarts     BlockBuilder.restarts                                   *)
(*   bcount        BlockBuilder.count                                      *)
(*   blast_key     BlockBuilder.last_key                                   *)
(*   bentries      per add made, in order: the key, the length of bbuf     *)
(*                 when the add began, and the shared length it encoded    *)
(*   bbuilt        None while the builder lives, Some(bytes) once build    *)
(*                 has consumed it                                         *)
(* The loop of write_data, one iteration at a time (src/src/wal.rs):       *)
(*   wpc           "idle" between calls, "loop" at the head of the loop    *)
(*   wdata         rest_data: the bytes of the payload not yet emitted     *)
(*   wbegin        is_begin                                                *)
(*   wlens         the cur_len of the iterations of the call made last     *)
(***************************************************************************)
VARIABLES file, block_offset, written, records, phase, fault, rpos, results,
          db, opens, mem, wal_lock, task, sets, durable, appends, overlap, nops,
          nfail, vwidth, vstage, vin, vbuf, vout, vraw, vdisk, vopen, vres,
          bbuf, brestarts, bcount, blast_key, bentries, bbuilt,
          wpc, wdata, wbegin, wlens

walVars == <<file, block_offset, written, records, phase, fault, rpos, results>>

dbVars ==
    <<db, opens, mem, wal_lock, task, sets, durable, appends, overlap, nops, nfail>>

varintVars == <<vwidth, vstage, vin, vbuf, vout, vraw>>

vfsVars == <<vdisk, vopen, vres>>

blockVars == <<bbuf, brestarts, bcount, blast_key, bentries, bbuilt>>

loopVars == <<wpc, wdata, wbegin, wlens>>

vars == <<walVars, dbVars, varintVars, vfsVars, blockVars, loopVars>>

\* Option<Bytes>
None == <<>>
Some(v) == <<v>>

Tasks == {1, 2}

\* the keys the callers use
Keys == {<<97>>, <<98>>}

\* MemTable::new: the empty map
MemTableNew == [k \in Keys |-> None]

\* a task outside any call, with nothing returned yet
IdleTask ==
    [pc |-> "idle", op |-> "none", k |-> <<>>, v |-> <<>>, steps |-> <<>>,
     wal_ok |-> FALSE, res |-> "none", ret |-> None, floor |-> 0, at |-> 0,
     dur |-> None]

\* no Db value exists
DbNone ==
    /\ db = "closed"
    /\ opens = 0
    /\ mem = MemTableNew
    /\ wal_lock = 0
    /\ task = [t \in Tasks |-> IdleTask]
    /\ sets = <<>>
    /\ durable = MemTableNew
    /\ appends = <<>>
    /\ overlap = FALSE
    /\ nops = 0
    /\ nfail = 0

\* the codec is not exercised on its own
VarintNone ==
    /\ vwidth = 0
    /\ vstage = "put"
    /\ vin = <<>>
    /\ vbuf = <<>>
    /\ vout = <<>>
    /\ vraw = <<>>

\* no call on the files yet
NoRes == [op |-> "none", name |-> "", ok |-> FALSE, missing |-> FALSE, len |-> 0]

\* the file names Vfs::open is called with: the log, and a table by level
Names == {"wal.log", "0"}

\* the files on their own are not used
VfsNone ==
    /\ vdisk = [n \in Names |-> None]
    /\ vopen = {}
    /\ vres = NoRes

\* BlockBuilder::new; also the state of the builder where it is not used
BlockNone ==
    /\ bbuf = <<>>
    /\ brestarts = <<>>
    /\ bcount = 0
    /\ blast_key = <<>>
    /\ bentries = <<>>
    /\ bbuilt = None

\* no write_data is running one iteration at a time
LoopNone ==
    /\ wpc = "idle"
    /\ wdata = <<>>
    /\ wbegin = TRUE
    /\ wlens = <<>>

\* gen_data of the tests: byte i, counted from 0, is i mod 256
GenData(n) == [i \in 1..n |-> (i - 1) % 256]

\* the payload lengths the writer is given
PayloadLens ==
    {0, HEADER_SIZE - 1, BLOCK_SIZE - HEADER_SIZE, BLOCK_SIZE,
     BLOCK_SIZE + 1, 2 * BLOCK_SIZE + 1}

Payloads == {GenData(n) : n \in PayloadLens}

NoFault == [kind |-> "none", pos |-> 0, bit |-> 0]

RECURSIVE Layout(_, _, _)
\* the records among the appends `steps`, the first of which lands at offset off
Layout(off, steps, pidx) ==
    IF steps = <<>> THEN <<>>
    ELSE LET s == Head(steps)
             rest == Layout(off + Len(s.bytes), Tail(steps), pidx)
         IN  IF s.kind = "rec"
             THEN <<[off |-> off, ty |-> s.ty, len |-> s.len, pidx |-> pidx]>> \o rest
             ELSE rest

\* WalFileWriter::new on an empty wal.log, and WalFileReader::new
WalInit ==
    /\ file = <<>>
    /\ block_offset = Len(file) % BLOCK_SIZE
    /\ written = <<>>
    /\ records = <<>>
    /\ phase = "write"
    /\ fault = NoFault
    /\ rpos = 0
    /\ results = <<>>
    /\ DbNone
    /\ VfsNone
    /\ BlockNone
    /\ LoopNone
    /\ VarintNone

\* WalFileWriter::write_data(p), every append succeeding
WalWrite(p) ==
    /\ phase = "write"
    /\ Len(written) < MaxWrites
    /\ LET steps == WriteDataSteps(block_offset, p, TRUE)
       IN  /\ file' = file \o Concat([i \in 1..Len(steps) |-> steps[i].bytes])
           /\ block_offset' = steps[Len(steps)].bo
           /\ records' = records \o Layout(Len(file), steps, Len(written) + 1)
    /\ written' = Append(written, p)
    /\ UNCHANGED <<phase, fault, rpos, results>>
    /\ UNCHANGED <<dbVars, varintVars, vfsVars, blockVars, loopVars>>

\* the reader starts on the file as written
StartRead ==
    /\ phase = "write"
    /\ phase' = "read"
    /\ UNCHANGED <<file, block_offset, written, records, fault, rpos, results>>
    /\ UNCHANGED <<dbVars, varintVars, vfsVars, blockVars, loopVars>>

\* a crash leaves only the first n bytes of the file
Truncate(n) ==
    /\ phase = "write"
    /\ file' = SubSeq(file, 1, n)
    /\ fault' = [kind |-> "trunc", pos |-> n, bit |-> 0]
    /\ phase' = "read"
    /\ UNCHANGED <<block_offset, written, records, rpos, results>>
    /\ UNCHANGED <<dbVars, varintVars, vfsVars, blockVars, loopVars>>

\* the file offsets (from 0) of record bytes outside the CRC field
Flippable ==
    UNION {(records[j].off + 4)..(records[j].off + HEADER_SIZE + records[j].len - 1)
             : j \in 1..Len(records)}

\* bit b of the byte at offset i is flipped on disk
FlipBit(i, b) ==
    /\ phase = "write"
    /\ file' = [file EXCEPT ![i + 1] = Xor8(@, Pow2(b))]
    /\ fault' = [kind |-> "flip", pos |-> i, bit |-> b]
    /\ phase' = "read"
    /\ UNCHANGED <<block_offset, written, records, rpos, results>>
    /\ UNCHANGED <<dbVars, varintVars, vfsVars, blockVars, loopVars>>

\* one call of WalFileReader::read_data
WalRead ==
    /\ phase = "read"
    /\ Len(results) <= Len(written) + 1
    /\ results # <<>> => results[Len(results)].kind \in {"Some", "None"}
    /\ LET r == ReadData(file, rpos)
       IN  /\ results' = Append(results, [kind |-> r.kind, data |-> r.data, offs |-> r.offs])
           /\ rpos' = r.pos
    /\ UNCHANGED <<file, block_offset, written, records, phase, fault>>
    /\ UNCHANGED <<dbVars, varintVars, vfsVars, blockVars, loopVars>>

WalNext ==
    \/ \E p \in Payloads : WalWrite(p)
    \/ StartRead
    \/ \E n \in 0..(Len(file) - 1) : Truncate(n)
    \/ \E i \in Flippable, b \in 0..7 : FlipBit(i, b)
    \/ WalRead

SpecWal == WalInit /\ [][WalNext]_vars


(***************************************************************************)
(* Claims about the log's framing, checked under SpecWal.                  *)
(***************************************************************************)
InSeq(x, s) == \E k \in 1..Len(s) : s[k] = x

\* the i-th read_data returned the payload p
Returned(i, p) == results[i].kind = "Some" /\ results[i].data = p

\* C1: on a log written by write_data and left as written, the successive
\* read_data calls return the written payloads, byte for byte and in order,
\* and every further call returns None.
C1_RoundTrip ==
    (phase = "read" /\ fault.kind = "none") =>
        \A i \in 1..Len(results) :
            IF i <= Len(written) THEN Returned(i, written[i])
            ELSE results[i].kind = "None"

\* C6: on a log written by write_data and cut at any byte offset (or left
\* whole), every payload read_data returns is the written payload of the same
\* position: the payloads returned are a prefix of the payloads written.
C6_TornTailPrefix ==
    (phase = "read" /\ fault.kind \in {"none", "trunc"}) =>
        \A i \in 1..Len(results) :
            results[i].kind = "Some" => (i <= Len(written) /\ results[i].data = written[i])

\* C6 witness: a log of two payloads cut inside the data of its last record;
\* the reader returned the first payload and failed on the torn one.
C6_Witness ==
    /\ fault.kind = "trunc"
    /\ Len(written) = 2
    /\ Len(results) = 2
    /\ Returned(1, written[1])
    /\ written[1] # <<>>
    /\ results[2].kind = "VfsError"

\* the record whose length, type or data holds the flipped bit
FlipRecord ==
    CHOOSE j \in 1..Len(records) :
        /\ records[j].off + 4 <= fault.pos
        /\ fault.pos < records[j].off + HEADER_SIZE + records[j].len

\* the field of that record the flipped bit lies in
FlipField ==
    IF fault.pos < records[FlipRecord].off + 6 THEN "length"
    ELSE IF fault.pos = records[FlipRecord].off + 6 THEN "type"
    ELSE "payload"

\* every read_data call that read the record with the flipped bit returned
\* the error the code returns on a checksum mismatch
FlipRejected ==
    \A i \in 1..Len(results) :
        InSeq(records[FlipRecord].off, results[i].offs)
            => results[i].kind = "InvalidRecordTypeError"

C8_EmptyPayloadRecorded ==
    \A i \in 1..Len(written) :
        written[i] = <<>> =>
            /\ \E j \in 1..Len(records) :
                  /\ records[j].pidx = i /\ records[j].ty = Full /\ records[j].len = 0
                  /\ \A k \in 1..Len(records) : records[k].pidx = i => k = j
            /\ (phase = "read" /\ fault.kind = "none" /\ Len(results) >= i)
                  => Returned(i, <<>>)


(***************************************************************************)
(* The Db (src/src/db.rs), its MemTable (src/src/mem_table.rs) and the     *)
(* Wal in front of the writer (src/src/wal.rs), called by the tasks.  A    *)
(* task gives way to the others wherever the code awaits a lock or a file  *)
(* operation.                                                              *)
(***************************************************************************)
\* the most calls of Db::set and Db::get the tasks start, over every Db value
MaxOps == 3

\* the most times Db::create runs on the path
MaxOpens == 2

\* the most appends that fail
MaxFails == 1

\* a MemTable::set that keeps the value a key already has
MemTableSetIfVacant(m, k, v) ==
    [map |-> IF m[k] = None THEN [m EXCEPT ![k] = Some(v)] ELSE m, old |-> m[k]]

\* a MemTable::set that does not hand back the value it replaced
MemTableSetForgetful(m, k, v) ==
    [map |-> [m EXCEPT ![k] = Some(v)], old |-> None]

\* MemTable::set: BTreeMap::insert, the new map and the value returned
MemTableSet(m, k, v) ==
    [map |-> [m EXCEPT ![k] = Some(v)], old |-> m[k]]

\* MemTable::get
MemTableGet(m, k) == m[k]

\* the payload Wal::set_impl builds for (key, value)
SetPayload(k, v) ==
    PutVarU32Le(ToLe(Len(k), 4)) \o k \o PutVarU32Le(ToLe(Len(v), 4)) \o v

\* a Db::set that inserts into the MemTable whatever the log write returned
DbSetTailAlwaysVisible(wal_ok, m, k, v) ==
    LET r == MemTableSet(m, k, v)
    IN  [mem |-> r.map, res |-> IF wal_ok THEN "Ok" ELSE "Err", old |-> r.old,
         inserted |-> TRUE]

\* Db::set once self.wal.set(..).await has returned: `?`, then the insert
DbSetTail(wal_ok, m, k, v) ==
    IF ~wal_ok
    THEN [mem |-> m, res |-> "Err", old |-> None, inserted |-> FALSE]
    ELSE LET r == MemTableSet(m, k, v)
         IN  [mem |-> r.map, res |-> "Ok", old |-> r.old, inserted |-> TRUE]

\* how many bytes of an append of len bytes reach the file when it fails:
\* none, half of them, all but one
FailPrefixes(len) == {0, len \div 2, len - 1} \cap 0..(len - 1)

\* the tasks inside Wal::set
InWalSet == {t \in Tasks : task[t].pc \in {"wal_lock", "wal_write"}}

AllIdle == \A t \in Tasks : task[t].pc = "idle"

\* wal.log exists and is empty; no Db value yet
DbInit ==
    /\ file = <<>>
    /\ block_offset = 0
    /\ written = <<>>
    /\ records = <<>>
    /\ phase = "write"
    /\ fault = NoFault
    /\ rpos = 0
    /\ results = <<>>
    /\ DbNone
    /\ VfsNone
    /\ BlockNone
    /\ LoopNone
    /\ VarintNone

\* Db::create: Wal::open (WalFileWriter::new on wal.log as it is) and a new
\* MemTable
DbCreate ==
    /\ phase = "write"
    /\ db = "closed"
    /\ opens < MaxOpens
    /\ db' = "open"
    /\ opens' = opens + 1
    /\ block_offset' = Len(file) % BLOCK_SIZE
    /\ mem' = MemTableNew
    /\ wal_lock' = 0
    /\ UNCHANGED <<file, written, records, phase, fault, rpos, results>>
    /\ UNCHANGED <<task, sets, durable, appends, overlap, nops, nfail, varintVars, vfsVars, blockVars, loopVars>>

\* the Db value is dropped once no call is running on it
DbClose ==
    /\ phase = "write"
    /\ db = "open"
    /\ AllIdle
    /\ db' = "closed"
    /\ mem' = MemTableNew
    /\ task' = [t \in Tasks |-> IdleTask]
    /\ sets' = <<>>
    /\ UNCHANGED <<walVars, opens, wal_lock, durable, appends, overlap, nops, nfail, varintVars, vfsVars, blockVars, loopVars>>

\* task t calls Db::set(k, v): Wal::set_impl builds the payload and waits for
\* the lock of the writer
SetCall(t, k) ==
    /\ phase = "write"
    /\ db = "open"
    /\ task[t].pc = "idle"
    /\ nops < MaxOps
    /\ nops' = nops + 1
    /\ task' = [task EXCEPT ![t] =
                   [IdleTask EXCEPT !.pc = "wal_lock", !.op = "set", !.k = k,
                                    !.v = <<nops + 1>>]]
    /\ UNCHANGED <<walVars, db, opens, mem, wal_lock, sets, durable, appends, overlap, nfail,
                   varintVars, vfsVars, blockVars, loopVars>>

\* task t gets the lock and enters write_data
WalSetLock(t) ==
    /\ phase = "write"
    /\ task[t].pc = "wal_lock"
    /\ wal_lock = 0
    /\ wal_lock' = t
    /\ task' = [task EXCEPT ![t].pc = "wal_write",
                            ![t].steps = WriteDataSteps(block_offset,
                                             SetPayload(task[t].k, task[t].v), TRUE)]
    /\ UNCHANGED <<walVars, db, opens, mem, sets, durable, appends, overlap, nops, nfail,
                   varintVars, vfsVars, blockVars, loopVars>>

\* the next append of task t's write_data succeeds; after the last one
\* write_data returns Ok and the lock is released
WalAppend(t) ==
    /\ phase = "write"
    /\ task[t].pc = "wal_write"
    /\ LET s    == Head(task[t].steps)
           last == Len(task[t].steps) = 1
       IN  /\ file' = file \o s.bytes
           /\ block_offset' = s.bo
           /\ appends' = Append(appends, task[t].v)
           /\ overlap' = (overlap \/ Cardinality(InWalSet) > 1)
           /\ written' = IF last THEN Append(written, SetPayload(task[t].k, task[t].v))
                         ELSE written
           /\ wal_lock' = IF last THEN 0 ELSE wal_lock
           /\ task' = IF last
                      THEN [task EXCEPT ![t].pc = "wal_done", ![t].wal_ok = TRUE,
                                        ![t].steps = <<>>]
                      ELSE [task EXCEPT ![t].steps = Tail(@)]
    /\ UNCHANGED <<records, phase, fault, rpos, results>>
    /\ UNCHANGED <<db, opens, mem, sets, durable, nops, nfail, varintVars, vfsVars, blockVars, loopVars>>

\* the next append of task t's write_data fails after n of its bytes reached
\* the file: write_data returns the error and the lock is released
WalAppendFail(t, n) ==
    /\ phase = "write"
    /\ task[t].pc = "wal_write"
    /\ nfail < MaxFails
    /\ n \in FailPrefixes(Len(Head(task[t].steps).bytes))
    /\ file' = file \o Take(Head(task[t].steps).bytes, n)
    /\ appends' = Append(appends, task[t].v)
    /\ overlap' = (overlap \/ Cardinality(InWalSet) > 1)
    /\ wal_lock' = 0
    /\ nfail' = nfail + 1
    /\ task' = [task EXCEPT ![t].pc = "wal_done", ![t].wal_ok = FALSE, ![t].steps = <<>>]
    /\ UNCHANGED <<block_offset, written, records, phase, fault, rpos, results>>
    /\ UNCHANGED <<db, opens, mem, sets, durable, nops, varintVars, vfsVars, blockVars, loopVars>>

\* the rest of Db::set for task t: the error is returned, or the MemTable is
\* updated and Ok returned
DbSetFinish(t) ==
    /\ phase = "write"
    /\ task[t].pc = "wal_done"
    /\ LET r == DbSetTail(task[t].wal_ok, mem, task[t].k, task[t].v)
           sets1 == IF r.inserted
                    THEN Append(sets, [t |-> t, k |-> task[t].k, v |-> task[t].v])
                    ELSE sets
       IN  /\ mem' = r.mem
           /\ sets' = sets1
           /\ durable' = IF r.res = "Ok" THEN [durable EXCEPT ![task[t].k] = Some(task[t].v)]
                         ELSE durable
           /\ task' = [task EXCEPT ![t].pc = "idle", ![t].res = r.res, ![t].ret = r.old,
                                   ![t].at = Len(sets1)]
    /\ UNCHANGED <<walVars, db, opens, wal_lock, appends, overlap, nops, nfail, varintVars, vfsVars, blockVars, loopVars>>

\* task t calls Db::get(k) and waits for the lock of the MemTable
GetCall(t, k) ==
    /\ phase = "write"
    /\ db = "open"
    /\ task[t].pc = "idle"
    /\ nops < MaxOps
    /\ nops' = nops + 1
    /\ task' = [task EXCEPT ![t] =
                   [IdleTask EXCEPT !.pc = "mem_get", !.op = "get", !.k = k,
                                    !.floor = Len(sets)]]
    /\ UNCHANGED <<walVars, db, opens, mem, wal_lock, sets, durable, appends, overlap, nfail,
                   varintVars, vfsVars, blockVars, loopVars>>

\* MemTable::get for task t, and the return of Db::get
MemGet(t) ==
    /\ phase = "write"
    /\ task[t].pc = "mem_get"
    /\ task' = [task EXCEPT ![t].pc = "idle", ![t].res = "Ok",
                            ![t].ret = MemTableGet(mem, task[t].k),
                            ![t].at = Len(sets), ![t].dur = durable[task[t].k]]
    /\ UNCHANGED <<walVars, db, opens, mem, wal_lock, sets, durable, appends, overlap, nops, nfail,
                   varintVars, vfsVars, blockVars, loopVars>>

\* a reader is opened on wal.log once the Db value is gone
DbStartRead ==
    /\ db = "closed"
    /\ written # <<>>
    /\ StartRead

DbNext ==
    \/ DbCreate
    \/ DbClose
    \/ \E t \in Tasks, k \in Keys : SetCall(t, k)
    \/ \E t \in Tasks : WalSetLock(t)
    \/ \E t \in Tasks : WalAppend(t)
    \/ \E t \in Tasks, n \in 0..(BLOCK_SIZE + HEADER_SIZE) : WalAppendFail(t, n)
    \/ \E t \in Tasks : DbSetFinish(t)
    \/ \E t \in Tasks, k \in Keys : GetCall(t, k)
    \/ \E t \in Tasks : MemGet(t)
    \/ DbStartRead
    \/ WalRead

SpecDb == DbInit /\ [][DbNext]_vars


(***************************************************************************)
(* Claims about the Db, checked under SpecDb.                              *)
(***************************************************************************)
\* the last call of task t was a Db::get, and it has returned
GetReturned(t) == task[t].pc = "idle" /\ task[t].op = "get" /\ task[t].res = "Ok"

\* the last call of task t was a Db::set, and it has returned Ok
SetReturned(t) == task[t].pc = "idle" /\ task[t].op = "set" /\ task[t].res = "Ok"

\* the last call of task t was a Db::set, and it has returned the error
SetFailed(t) == task[t].pc = "idle" /\ task[t].op = "set" /\ task[t].res = "Err"

MaxOf(S) == CHOOSE x \in S : \A y \in S : y <= x

\* the inserts for key k among the first n made on this Db value
SetsOn(k, n) == {i \in 1..n : sets[i].k = k}

\* the value of the last of them, if any
LastOn(k, n) ==
    IF SetsOn(k, n) = {} THEN None ELSE Some(sets[MaxOf(SetsOn(k, n))].v)

\* the bytes a whole write_data of payload p appends, from some block offset,
\* lie in the file
InFile(p) ==
    \E bo \in 0..BLOCK_SIZE :
        LET bytes == WriteDataBytes(bo, p)
        IN  \E o \in 0..(Len(file) - Len(bytes)) :
                SubSeq(file, o + 1, o + Len(bytes)) = bytes

\* C2: a Db::get returns the value of the last Db::set on its key that
\* returned Ok on this path, also when that set ran on a Db value opened and
\* closed before the one the get runs on.
C2_ReopenKeepsWrites ==
    \A t \in Tasks : GetReturned(t) => task[t].ret = task[t].dur

\* C3: every (key, value) the MemTable holds, and so Db::get can return, has
\* its whole logical record in wal.log; a Db::set whose log write failed has
\* returned the error and its value is not in the MemTable.
C3_LoggedBeforeVisible ==
    /\ \A k \in Keys : mem[k] # None => InFile(SetPayload(k, mem[k][1]))
    /\ \A t \in Tasks : SetFailed(t) => mem[task[t].k] # Some(task[t].v)

\* C3 witness: a Db::set failed after part of its record reached the file,
\* while the value of an earlier set on the same key is in the MemTable.
C3_Witness ==
    \E t \in Tasks :
        /\ SetFailed(t)
        /\ mem[task[t].k] # None
        /\ Len(file) % (HEADER_SIZE + Len(SetPayload(task[t].k, task[t].v))) # 0

C5_ReadsSeeCompletedSet ==
    \A t \in Tasks :
        (GetReturned(t) /\ SetsOn(task[t].k, task[t].floor) # {}) =>
            \E j \in MaxOf(SetsOn(task[t].k, task[t].floor))..task[t].at :
                sets[j].k = task[t].k /\ task[t].ret = Some(sets[j].v)

\* C5 witness: the get started after one task's set on k had returned and
\* while the other task's set on k was running; it returned the later value.
C5_Witness ==
    \E t \in Tasks :
        /\ GetReturned(t)
        /\ SetsOn(task[t].k, task[t].floor) # {}
        /\ \E j \in (task[t].floor + 1)..task[t].at :
              /\ sets[j].k = task[t].k
              /\ sets[j].t # t
              /\ task[t].ret = Some(sets[j].v)

\* every insert among the first n was made by task t
OnlyTask(t, n) == \A i \in 1..n : sets[i].t = t

\* C9: with one task making the calls, Db::get returns None for a key never
\* set and else the value of the most recent set on the key; the
\* MemTable::set of a Db::set returns the value the key had before, and the
\* MemTable holds one value for the key, the new one.
C9_OverwriteSemantics ==
    \A t \in Tasks :
        /\ (GetReturned(t) /\ OnlyTask(t, task[t].at)) =>
              task[t].ret = LastOn(task[t].k, task[t].at)
        /\ (SetReturned(t) /\ OnlyTask(t, task[t].at)) =>
              /\ task[t].ret = LastOn(task[t].k, task[t].at - 1)
              /\ LastOn(task[t].k, task[t].at) = Some(task[t].v)
              /\ (Len(sets) = task[t].at => mem[task[t].k] = Some(task[t].v))

\* C9 witness: one task set a key twice and then read it; the get returned
\* the second value.
C9_Witness ==
    \E t \in Tasks :
        /\ GetReturned(t)
        /\ OnlyTask(t, task[t].at)
        /\ task[t].at = 2
        /\ sets[1].k = task[t].k
        /\ sets[2].k = task[t].k
        /\ task[t].ret = Some(sets[2].v)


(***************************************************************************)
(* The codec on its own, as the tests of src/src/encoding.rs drive it:     *)
(* values are put one after the other into a buffer, the buffer is frozen  *)
(* and the values are decoded from it until the decoder returns None.  The *)
(* first value put ranges over the values at which the encoding changes    *)
(* length; the values put after it over three lengths of encoding.         *)
(***************************************************************************)
\* the most values put into one buffer
MaxVals == 2

\* the largest value of the width: !0
AllOnes(w) == AsTuple([i \in 1..w |-> 255])

\* the bit positions at which the length of the encoding changes, their
\* neighbours, and the two ends
VarintBits(w) ==
    {0, 8 * w - 1} \cup
    ({7 * j + d : j \in 1..((8 * w) \div 7), d \in {-1, 0, 1}} \cap 0..(8 * w - 1))

\* 0, !0, and 2^i - 1, 2^i, 2^i + 1 for those positions
VarintValues(w) ==
    {ToLe(0, w), AllOnes(w)} \cup
    UNION {{Shr(AllOnes(w), 8 * w - i),
            Shl(ToLe(1, w), i),
            Add(Shl(ToLe(1, w), i), ToLe(1, w)).val} : i \in VarintBits(w)}

\* the values put after the first: one with the shortest encoding, one of two
\* bytes, one with the longest
VarintFollowers(w) == {ToLe(0, w), ToLe(B, w), AllOnes(w)}

\* put_var_u32_le or put_var_u64_le, by the width of the value
PutVar(v) == IF Len(v) = 4 THEN PutVarU32Le(v) ELSE PutVarU64Le(v)

\* get_var_u32_le or get_var_u64_le, by the width under test
GetVar(w, buf, checked) ==
    IF w = 4 THEN GetVarU32Le(buf, checked) ELSE GetVarU64Le(buf, checked)

\* an empty BytesMut, for the u32 pair or the u64 pair
VarintInit ==
    /\ file = <<>>
    /\ block_offset = 0
    /\ written = <<>>
    /\ records = <<>>
    /\ phase = "write"
    /\ fault = NoFault
    /\ rpos = 0
    /\ results = <<>>
    /\ DbNone
    /\ VfsNone
    /\ BlockNone
    /\ LoopNone
    /\ vwidth \in {4, 8}
    /\ vstage = "put"
    /\ vin = <<>>
    /\ vbuf = <<>>
    /\ vout = <<>>
    /\ vraw = <<>>

\* buf.put_var_u32_le(v) or buf.put_var_u64_le(v), for some value v
VarintPut ==
    /\ vstage = "put"
    /\ Len(vin) < MaxVals
    /\ \E v \in IF vin = <<>> THEN VarintValues(vwidth) ELSE VarintFollowers(vwidth) :
          /\ vin' = Append(vin, v)
          /\ vbuf' = vbuf \o PutVar(v)
    /\ UNCHANGED <<walVars, dbVars, vwidth, vstage, vout, vraw, vfsVars, blockVars, loopVars>>

\* buf.freeze()
VarintFreeze ==
    /\ vstage = "put"
    /\ vstage' = "get"
    /\ UNCHANGED <<walVars, dbVars, vwidth, vin, vbuf, vout, vraw, vfsVars, blockVars, loopVars>>

\* buf.get_var_u32_le() or buf.get_var_u64_le(), in a build with or without
\* overflow checks
VarintGet(checked) ==
    /\ vstage = "get"
    /\ Len(vout) <= Len(vin)
    /\ LET r == GetVar(vwidth, vbuf, checked)
       IN  /\ vout' = Append(vout, [kind |-> r.kind,
                                    val |-> IF r.kind = "Some" THEN r.val ELSE <<>>])
           /\ vbuf' = r.rest
    /\ UNCHANGED <<walVars, dbVars, vwidth, vstage, vin, vraw, vfsVars, blockVars, loopVars>>

VarintNext ==
    \/ VarintPut
    \/ VarintFreeze
    \/ \E checked \in BOOLEAN : VarintGet(checked)

SpecVarint == VarintInit /\ [][VarintNext]_vars

\* C10: the values put back to back are decoded in order, each as Some of
\* the value put; once as many values are decoded as were put the buffer is
\* empty, and the next decode returns None.
C10_VarintRoundTrip ==
    /\ \A i \in 1..Len(vout) :
          IF i <= Len(vin) THEN vout[i] = [kind |-> "Some", val |-> vin[i]]
          ELSE vout[i].kind = "None"
    /\ (vstage = "get" /\ Len(vout) >= Len(vin)) => vbuf = <<>>

\* C10 witness: 2^63 and !0 as u64, ten bytes each, put back to back and
\* decoded, and the decode after them returned None.
C10_Witness ==
    /\ vwidth = 8
    /\ vin = <<Shl(ToLe(1, 8), 63), AllOnes(8)>>
    /\ Len(vout) = 3
    /\ vout[2] = [kind |-> "Some", val |-> AllOnes(8)]
    /\ vout[3].kind = "None"


(***************************************************************************)
(* Claims about the layout the writer produces, checked under SpecWal.     *)
(***************************************************************************)
\* the file offset just past record j
RecordEnd(j) == records[j].off + HEADER_SIZE + records[j].len

\* where the writer stands in the file when record j must start: the end of
\* the record before it
RecordDue(j) == IF j = 1 THEN 0 ELSE RecordEnd(j - 1)

\* the bytes of its payload that the records before record j carry
CarriedBefore(j) ==
    LET before == {i \in 1..(j - 1) : records[i].pidx = records[j].pidx}
        RECURSIVE total(_)
        total(S) == IF S = {} THEN 0
                    ELSE LET i == CHOOSE x \in S : TRUE
                         IN  records[i].len + total(S \ {i})
    IN  total(before)

\* C12: every physical record, header and data, lies inside one block of
\* BLOCK_SIZE bytes of the file, and its length is at most
\* BLOCK_SIZE - HEADER_SIZE.
C12_RecordsWithinBlocks ==
    \A j \in 1..Len(records) :
        /\ records[j].off \div BLOCK_SIZE = (RecordEnd(j) - 1) \div BLOCK_SIZE
        /\ records[j].len <= BLOCK_SIZE - HEADER_SIZE

\* C13: while the writer runs, after open and after every write_data,
\* block_offset is the length of the file modulo BLOCK_SIZE.
C13_BlockOffsetTracksFile ==
    phase = "write" => block_offset = Len(file) % BLOCK_SIZE

C15_FragmentSizing ==
    \A j \in 1..Len(records) :
        LET left_over == BLOCK_SIZE - (records[j].off % BLOCK_SIZE)
            remaining == Len(written[records[j].pidx]) - CarriedBefore(j)
        IN  records[j].len = Min(left_over - HEADER_SIZE, remaining)

\* the records of payload p, by their position among the records
GroupOf(p) == {j \in 1..Len(records) : records[j].pidx = p}

\* C16: the records in the file are one group per payload, in write order;
\* a group is one Full, or one First, then Middles, then one Last.
C16_FragmentTypeDiscipline ==
    /\ \A j \in 1..(Len(records) - 1) :
          records[j + 1].pidx \in {records[j].pidx, records[j].pidx + 1}
    /\ \A p \in 1..Len(written) :
          LET g  == GroupOf(p)
              lo == CHOOSE x \in g : \A y \in g : x <= y
              hi == CHOOSE x \in g : \A y \in g : y <= x
          IN  /\ g # {}
              /\ IF lo = hi THEN records[lo].ty = Full
                 ELSE /\ records[lo].ty = First
                      /\ records[hi].ty = Last
                      /\ \A j \in (lo + 1)..(hi - 1) : records[j].ty = Middle

\* C16 witness: a payload written as First, Middles and Last, and after it a
\* payload written as one Full.
C16_Witness ==
    /\ Len(written) = 2
    /\ \E j \in GroupOf(1) : records[j].ty = Middle
    /\ \E j \in GroupOf(1) : records[j].ty = Last
    /\ \E j \in GroupOf(2) : records[j].ty = Full

\* the next multiple of BLOCK_SIZE after offset o
NextBlock(o) == ((o \div BLOCK_SIZE) + 1) * BLOCK_SIZE

\* the type byte of the header at offset o is zero
ZeroTypeAt(o) == Len(file) - o >= HEADER_SIZE /\ file[o + HEADER_SIZE] = 0

\* C17: a read_data call whose first header has a zero type byte returns what
\* reading from the next multiple of BLOCK_SIZE returns (None when the file
\* ends before it).
C17_ReaderSkipsPadding ==
    \A i \in 1..Len(results) :
        LET o    == results[i].offs[1]
            to   == Min(NextBlock(o), Len(file))
            next == ReadData(file, to)
        IN  (ZeroTypeAt(o) /\ ~ZeroTypeAt(to)) =>
                (results[i].kind = next.kind /\ results[i].data = next.data)

\* C18: read_record returns None only with the cursor at the end of the
\* file: a read_data call that returned None, or that failed because
\* read_record returned None inside a fragmented payload, made its last
\* read_record call at the end of the file.
C18_NoneOnlyAtCleanEnd ==
    \A i \in 1..Len(results) :
        results[i].kind \in {"None", "InvalidWalFileError"} =>
            results[i].offs[Len(results[i].offs)] = Len(file)


(***************************************************************************)
(* The reader on files made of well-formed physical records in any order:  *)
(* each record is what emit_physical_record appends for a type and a data  *)
(* slice, so every header and checksum is valid and only the sequence of   *)
(* record types varies.                                                    *)
(***************************************************************************)
MaxFrames == 3

\* the data slices of the records
FrameData == {GenData(0), GenData(2)}

FramesInit == WalInit

\* WalFileWriter::emit_physical_record(data, ty) on the file
EmitRecord(ty, d) ==
    /\ phase = "write"
    /\ Len(records) < MaxFrames
    /\ file' = file \o EmitPhysicalRecord(ty, d)
    /\ records' = Append(records,
                         [off |-> Len(file), ty |-> ty, len |-> Len(d), pidx |-> 0])
    /\ UNCHANGED <<block_offset, written, phase, fault, rpos, results>>
    /\ UNCHANGED <<dbVars, varintVars, vfsVars, blockVars, loopVars>>

\* one call of WalFileReader::read_data, at most one more than there are
\* records, none after a call that failed
FrameRead ==
    /\ phase = "read"
    /\ Len(results) <= Len(records)
    /\ results # <<>> => results[Len(results)].kind \in {"Some", "None"}
    /\ LET r == ReadData(file, rpos)
       IN  /\ results' = Append(results, [kind |-> r.kind, data |-> r.data, offs |-> r.offs])
           /\ rpos' = r.pos
    /\ UNCHANGED <<file, block_offset, written, records, phase, fault>>
    /\ UNCHANGED <<dbVars, varintVars, vfsVars, blockVars, loopVars>>

FramesNext ==
    \/ \E ty \in {Full, First, Middle, Last}, d \in FrameData : EmitRecord(ty, d)
    \/ StartRead
    \/ FrameRead

SpecFrames == FramesInit /\ [][FramesNext]_vars

\* the index of the record whose header is at file offset o, or one past the
\* last record when o is the end of the file
FrameAt(o) ==
    IF \E j \in 1..Len(records) : records[j].off = o
    THEN CHOOSE j \in 1..Len(records) : records[j].off = o
    ELSE Len(records) + 1

RECURSIVE EndsWithLast(_)
\* from record k on there are only Middles and then a Last
EndsWithLast(k) ==
    IF k > Len(records) THEN FALSE
    ELSE IF records[k].ty = Middle THEN EndsWithLast(k + 1)
    ELSE records[k].ty = Last

\* the records from k on start with one Full, or with First, Middle*, Last
Accepted(k) ==
    /\ k <= Len(records)
    /\ \/ records[k].ty = Full
       \/ records[k].ty = First /\ EndsWithLast(k + 1)

\* C19: a read_data call at the end of the file returns None; one that meets
\* Full, or First, Middle*, Last, returns a payload; one that meets any other
\* sequence of records fails with InvalidWalFileError.
C19_ReaderFragmentStateMachine ==
    \A i \in 1..Len(results) :
        LET k == FrameAt(results[i].offs[1])
        IN  IF k > Len(records) THEN results[i].kind = "None"
            ELSE IF Accepted(k) THEN results[i].kind = "Some"
            ELSE results[i].kind = "InvalidWalFileError"


(***************************************************************************)
(* The decoders on buffers no encoder wrote: a run of bytes with the high  *)
(* bit set, then at most one byte with the high bit clear.                 *)
(***************************************************************************)
MaxRawConts == 10

\* bytes with the high bit set, bytes with it clear
RawConts == {B, B + 1, 2 * B - 1}
RawEnds == {0, 1, 15, 16, B - 1}

RawBuffers ==
    {[i \in 1..k |-> c] \o e :
        c \in RawConts, k \in 0..MaxRawConts, e \in {<<>>} \cup {<<x>> : x \in RawEnds}}

\* the most bytes a decoder of width w consumes: the bound of its loop
MaxVarBytes(w) == IF w = 4 THEN 5 ELSE 10

RawInit ==
    /\ file = <<>>
    /\ block_offset = 0
    /\ written = <<>>
    /\ records = <<>>
    /\ phase = "write"
    /\ fault = NoFault
    /\ rpos = 0
    /\ results = <<>>
    /\ DbNone
    /\ VfsNone
    /\ BlockNone
    /\ LoopNone
    /\ vwidth \in {4, 8}
    /\ vstage = "get"
    /\ vin = <<>>
    /\ vraw \in RawBuffers
    /\ vbuf = vraw
    /\ vout = <<>>

RawNext == \E checked \in BOOLEAN : VarintGet(checked)

SpecVarintRaw == RawInit /\ [][RawNext]_vars

\* the index of the first byte of buf with the high bit clear, 0 if none
FirstEnd(buf) ==
    IF \E i \in 1..Len(buf) : AndB(buf[i]) = 0
    THEN CHOOSE i \in 1..Len(buf) : AndB(buf[i]) = 0 /\ \A j \in 1..(i - 1) : AndB(buf[j]) # 0
    ELSE 0

\* buf is no encoding of a value of w bytes: it has no terminating byte, or
\* none within the most bytes a value takes, or its terminating byte is the
\* last one allowed and carries bits beyond the width
Malformed(buf, w) ==
    LET n == FirstEnd(buf)
    IN  \/ n = 0
        \/ n > MaxVarBytes(w)
        \/ n = MaxVarBytes(w) /\ buf[n] >= 2 ^ (8 * w - 7 * (MaxVarBytes(w) - 1))

\* C20: on a malformed buffer the decoder returns no value.
C20_DecoderRejectsMalformed ==
    (vraw # <<>> /\ vout # <<>> /\ Malformed(vraw, vwidth)) => vout[1].kind # "Some"


(***************************************************************************)
(* The files of src/src/vfs.rs on their own: a base directory that starts  *)
(* empty, files that something other than the program may create in it,    *)
(* and the calls open, append and len.                                     *)
(***************************************************************************)
MaxFileLen == 2

\* the slices appended
AppendData == {<<1>>, <<2>>}

VfsInit ==
    /\ file = <<>>
    /\ block_offset = 0
    /\ written = <<>>
    /\ records = <<>>
    /\ phase = "write"
    /\ fault = NoFault
    /\ rpos = 0
    /\ results = <<>>
    /\ DbNone
    /\ VfsNone
    /\ BlockNone
    /\ LoopNone
    /\ VarintNone

\* a file of this name is created empty by something other than the program
ExternCreate(n) ==
    /\ vdisk[n] = None
    /\ vdisk' = [vdisk EXCEPT ![n] = Some(<<>>)]
    /\ UNCHANGED <<vopen, vres>>
    /\ UNCHANGED <<walVars, dbVars, varintVars, blockVars, loopVars>>

\* Vfs::open(n): VFile::open, VFileInner::open.  The reader end is opened
\* first, read-only and without create: it fails when no file exists, and
\* the create-on-open of the writer end is not reached.
VfsOpen(n) ==
    /\ IF vdisk[n] = None
       THEN /\ vres' = [op |-> "open", name |-> n, ok |-> FALSE, missing |-> TRUE,
                        len |-> 0]
            /\ UNCHANGED <<vdisk, vopen>>
       ELSE /\ vres' = [op |-> "open", name |-> n, ok |-> TRUE, missing |-> FALSE,
                        len |-> 0]
            /\ vopen' = vopen \cup {n}
            /\ UNCHANGED vdisk
    /\ UNCHANGED <<walVars, dbVars, varintVars, blockVars, loopVars>>

\* VFile::append(d) on the handle of n
VFileAppend(n, d) ==
    /\ n \in vopen
    /\ Len(vdisk[n][1]) + Len(d) <= MaxFileLen
    /\ vdisk' = [vdisk EXCEPT ![n] = Some(@[1] \o d)]
    /\ vres' = [op |-> "append", name |-> n, ok |-> TRUE, missing |-> FALSE, len |-> 0]
    /\ UNCHANGED vopen
    /\ UNCHANGED <<walVars, dbVars, varintVars, blockVars, loopVars>>

\* VFile::len() on the handle of n
VFileLen(n) ==
    /\ n \in vopen
    /\ vres' = [op |-> "len", name |-> n, ok |-> TRUE, missing |-> FALSE,
                len |-> Len(vdisk[n][1])]
    /\ UNCHANGED <<vdisk, vopen>>
    /\ UNCHANGED <<walVars, dbVars, varintVars, blockVars, loopVars>>

VfsNext ==
    \/ \E n \in Names : ExternCreate(n)
    \/ \E n \in Names : VfsOpen(n)
    \/ \E n \in Names, d \in AppendData : VFileAppend(n, d)
    \/ \E n \in Names : VFileLen(n)

SpecVfs == VfsInit /\ [][VfsNext]_vars

\* C11: an open of a name under which no file exists returns Ok, leaves an
\* empty file under that name, and the handle it returns is usable.
C11_OpenCreatesMissing ==
    (vres.op = "open" /\ vres.missing) =>
        /\ vres.ok
        /\ vdisk[vres.name] = Some(<<>>)
        /\ vres.name \in vopen


(***************************************************************************)
(* The block builder of src/src/sorted_stable.rs: adds of increasing keys, *)
(* then build.                                                             *)
(***************************************************************************)
RESTART_THRESHOLD == 3

\* the keys and values handed to add
BlockKeys ==
    {<<>>} \cup {<<a>> : a \in {97, 98}} \cup {<<a, b>> : a \in {97, 98}, b \in {97, 98}}
BlockValues == {<<>>, <<1>>}

\* the order of Bytes: k1 < k2, byte by byte, a proper prefix being smaller
KeyLess(k1, k2) ==
    \E n \in 0..Min(Len(k1), Len(k2)) :
        /\ \A i \in 1..n : k1[i] = k2[i]
        /\ \/ n = Len(k1) /\ n < Len(k2)
           \/ n < Len(k1) /\ n < Len(k2) /\ k1[n + 1] < k2[n + 1]

\* shared_prefix_len
SharedPrefixLen(key1, key2) ==
    LET ns == {n \in 0..Min(Len(key1), Len(key2)) : \A i \in 1..n : key1[i] = key2[i]}
    IN  CHOOSE n \in ns : \A m \in ns : m <= n

\* BlockBuilder::add on the fields of the builder: the fields after it, and
\* the shared length it encoded
BlockAdd(buf, restarts, count, last_key, key, value) ==
    LET restart == ~(count < RESTART_THRESHOLD)
        shared == IF restart THEN 0 ELSE SharedPrefixLen(last_key, key)
        non_shared == Len(key) - shared
    IN  [buf      |-> buf \o PutVarU32Le(ToLe(shared, 4))
                          \o PutVarU32Le(ToLe(non_shared, 4))
                          \o PutVarU32Le(ToLe(Len(value), 4))
                          \o Drop(key, shared) \o value,
         restarts |-> IF restart THEN Append(restarts, Len(buf)) ELSE restarts,
         count    |-> (IF restart THEN 0 ELSE count) + 1,
         last_key |-> key,
         shared   |-> shared]

\* BlockBuilder::build on the fields of the builder
BlockBuild(buf, restarts) ==
    buf \o Concat([i \in 1..Len(restarts) |-> ToLe(restarts[i], 4)])
        \o ToLe(Len(restarts), 4)

BlockInit ==
    /\ file = <<>>
    /\ block_offset = 0
    /\ written = <<>>
    /\ records = <<>>
    /\ phase = "write"
    /\ fault = NoFault
    /\ rpos = 0
    /\ results = <<>>
    /\ DbNone
    /\ VfsNone
    /\ VarintNone
    /\ BlockNone
    /\ LoopNone

\* builder.add(key, value), the key above the one added before
BuilderAdd(key, value) ==
    /\ bbuilt = None
    /\ bentries # <<>> => KeyLess(blast_key, key)
    /\ LET r == BlockAdd(bbuf, brestarts, bcount, blast_key, key, value)
       IN  /\ bbuf' = r.buf
           /\ brestarts' = r.restarts
           /\ bcount' = r.count
           /\ blast_key' = r.last_key
           /\ bentries' = Append(bentries,
                                 [key |-> key, off |-> Len(bbuf), shared |-> r.shared])
    /\ UNCHANGED bbuilt
    /\ UNCHANGED <<walVars, dbVars, varintVars, vfsVars, loopVars>>

\* builder.build()
BuilderBuild ==
    /\ bbuilt = None
    /\ bbuilt' = Some(BlockBuild(bbuf, brestarts))
    /\ UNCHANGED <<bbuf, brestarts, bcount, blast_key, bentries>>
    /\ UNCHANGED <<walVars, dbVars, varintVars, vfsVars, loopVars>>

BlockNext ==
    \/ \E key \in BlockKeys, value \in BlockValues : BuilderAdd(key, value)
    \/ BuilderBuild

SpecBlock == BlockInit /\ [][BlockNext]_vars

\* the entries whose index, from 0, is a multiple of RESTART_THRESHOLD
RestartEntries == {i \in 1..Len(bentries) : (i - 1) % RESTART_THRESHOLD = 0}

\* C21: every entry whose index is a multiple of RESTART_THRESHOLD has shared
\* length 0, every other entry shares the longest common prefix with the key
\* before it, and the restart list holds the offsets of exactly the former,
\* in order: ceil(n / RESTART_THRESHOLD) of them after n adds, the first 0.
C21_RestartPoints ==
    /\ \A i \in 1..Len(bentries) :
          bentries[i].shared =
              IF i \in RestartEntries THEN 0
              ELSE SharedPrefixLen(bentries[i - 1].key, bentries[i].key)
    /\ Len(brestarts) = Cardinality(RestartEntries)
    /\ \A j \in 1..Len(brestarts) :
          brestarts[j] = bentries[(j - 1) * RESTART_THRESHOLD + 1].off


(***************************************************************************)
(* The MemTable against the order of the log, checked under SpecDb.        *)
(***************************************************************************)
\* the positions in the log, in file order, of the whole records for key k
WrittenOn(k) ==
    {i \in 1..Len(written) : \E n \in 1..MaxOps : written[i] = SetPayload(k, <<n>>)}

\* what a replay of the log in file order leaves for key k
Replayed(k) ==
    IF WrittenOn(k) = {} THEN None
    ELSE LET i == MaxOf(WrittenOn(k))
         IN  Some(CHOOSE v \in {<<n>> : n \in 1..MaxOps} : written[i] = SetPayload(k, v))

\* C22: once every Db::set called on the first Db value of the path has
\* returned, the MemTable holds for every key the value of the last record
\* for that key in the log.
C22_MemTableAgreesWithLog ==
    (db = "open" /\ opens = 1 /\ AllIdle) => \A k \in Keys : mem[k] = Replayed(k)


(***************************************************************************)
(* The loop of WalFileWriter::write_data, one iteration per step, every    *)
(* append succeeding.  The calls start from every block offset a writer    *)
(* can have: 0 after open on the empty log, and what the call before left. *)
(***************************************************************************)
MaxLoopCalls == 2

\* the payloads of the calls
LoopPayloads == {GenData(n) : n \in 0..(2 * BLOCK_SIZE + 1)}

\* an iteration that keeps block_offset where it is after the padding
WriteDataIterNoReset(bo, data, is_begin) ==
    LET left_over == BLOCK_SIZE - bo
        pads      == left_over < HEADER_SIZE
        bo1       == bo
        is_end    == left_over >= Len(data)
        cur_len   == IF is_end THEN Len(data) ELSE left_over
        ty        == RecordTypeCalc(is_begin, is_end)
    IN  [bytes   |-> (IF pads THEN Zeroes(left_over) ELSE <<>>)
                         \o EmitPhysicalRecord(ty, Take(data, cur_len)),
         bo      |-> bo1 + cur_len,
         cur_len |-> cur_len,
         rest    |-> Drop(data, cur_len),
         break   |-> Len(data) = cur_len]

\* one iteration of the loop of write_data from block offset bo with data as
\* rest_data: the bytes appended, the block offset and rest_data after it,
\* and whether it leaves the loop
WriteDataIter(bo, data, is_begin) ==
    LET left_over == BLOCK_SIZE - bo
        pads      == left_over < HEADER_SIZE
        bo1       == IF pads THEN 0 ELSE bo
        is_end    == left_over >= Len(data)
        cur_len   == IF is_end THEN Len(data) ELSE left_over
        ty        == RecordTypeCalc(is_begin, is_end)
    IN  [bytes   |-> (IF pads THEN Zeroes(left_over) ELSE <<>>)
                         \o EmitPhysicalRecord(ty, Take(data, cur_len)),
         bo      |-> bo1 + cur_len,
         cur_len |-> cur_len,
         rest    |-> Drop(data, cur_len),
         break   |-> Len(data) = cur_len]

RECURSIVE SumSeq(_)
\* the sum of a sequence of numbers
SumSeq(q) == IF q = <<>> THEN 0 ELSE Head(q) + SumSeq(Tail(q))

LoopInit == WalInit

\* writer.write_data(p) is called and reaches the head of its loop
LoopCall(p) ==
    /\ wpc = "idle"
    /\ Len(written) < MaxLoopCalls
    /\ wpc' = "loop"
    /\ wdata' = p
    /\ wbegin' = TRUE
    /\ wlens' = <<>>
    /\ UNCHANGED <<walVars, dbVars, varintVars, vfsVars, blockVars>>

\* one iteration of the loop; the call returns Ok when it leaves the loop
LoopIter ==
    /\ wpc = "loop"
    /\ block_offset <= BLOCK_SIZE
    /\ \E r \in {WriteDataIter(block_offset, wdata, wbegin)} :
           /\ file' = file \o r.bytes
           /\ block_offset' = r.bo
           /\ wlens' = Append(wlens, r.cur_len)
           /\ wbegin' = FALSE
           /\ wdata' = r.rest
           /\ wpc' = IF r.break THEN "idle" ELSE "loop"
           \* the payload of the call: the lengths emitted before, and this one
           /\ written' = IF r.break
                         THEN Append(written, GenData(SumSeq(wlens) + r.cur_len))
                         ELSE written
    /\ UNCHANGED <<records, phase, fault, rpos, results>>
    /\ UNCHANGED <<dbVars, varintVars, vfsVars, blockVars>>

LoopNext ==
    \/ \E p \in LoopPayloads : LoopCall(p)
    \/ LoopIter

\* the task running write_data is polled until the call returns
SpecWriteLoop == LoopInit /\ [][LoopNext]_vars /\ WF_vars(LoopIter)

\* an iteration that emitted no payload byte and did not leave the loop was
\* followed by one that emitted some
ZeroThenSome ==
    \A i \in 1..(Len(wlens) - 1) : wlens[i] = 0 => wlens[i + 1] > 0

\* C23: block_offset stays within 0..BLOCK_SIZE, so BLOCK_SIZE - block_offset
\* does not underflow; an iteration of write_data that emits a record of
\* length 0 and goes on is followed by one that emits payload bytes; and
\* every call of write_data leaves its loop.
C23_WriteDataTerminates ==
    /\ [](block_offset \in 0..BLOCK_SIZE)
    /\ []ZeroThenSome
    /\ (wpc = "loop") ~> (wpc = "idle")

\* C23 witness: a call that started with block_offset = BLOCK_SIZE has
\* returned; it emitted a record of length 0, then payload bytes.
C23_Witness ==
    /\ wpc = "idle"
    /\ Len(written) = 2
    /\ Len(wlens) >= 3
    /\ wlens[1] = 0
    /\ wlens[2] > 0

====
